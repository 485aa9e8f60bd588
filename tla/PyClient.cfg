SPECIFICATION Spec
CONSTANTS
  c1 = c1
  WRITE = WRITE
  PING = PING
  Callers <- MCCallers
  Commands <- MCCommands
  SeqMod = 2
  MaxStarts = 2
  MaxIds = 3
  MaxWork = 4
SYMMETRY Symmetry
INVARIANTS TypeOK OwnReply PendingExact DeafOnlyForCause
CHECK_DEADLOCK FALSE
