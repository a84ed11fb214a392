CONSTANTS
  Threads = {t1, t2}
  MIs = {m1, m2}
  NoThread = NoThread
  SerialAdmin = TRUE
  MaxDepth = 2
SPECIFICATION FairSpec
INVARIANTS
  TypeOK
  RubyUp
  RootsLive
  FlagOwned
PROPERTY Implements
