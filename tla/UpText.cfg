CONSTANTS
  Threads = {t1}
  NoThread = NoThread
  Messages = TRUE
  MaxDepth = 2
SPECIFICATION Spec
INVARIANT DescriptionAlive
