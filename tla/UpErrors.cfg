CONSTANTS
  Threads = {t1, t2}
  NoThread = NoThread
  Messages = FALSE
  MaxDepth = 6
SPECIFICATION Spec
SYMMETRY Symmetry
INVARIANTS
  TypeOK
  FlagExact
  WrapperFaithful
  ErrorReported
