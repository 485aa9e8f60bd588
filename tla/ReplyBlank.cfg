CONSTANTS
  t1 = t1
  t2 = t2
  m1 = m1
  m2 = m2
  None = None
  Tasks <- MCTasks
  Commands <- MCCommands
  MaxServices = 1
  MaxTopics = 2
  MaxActions = 1
  MaxRetained = 1
  MaxCreates = 2
  MaxMessages = 2
  MaxInits = 2
  MaxDeinits = 1
SYMMETRY Symmetry
SPECIFICATION Spec
INVARIANT ReplyCarriesResponse
