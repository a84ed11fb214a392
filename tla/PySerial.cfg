CONSTANTS
  Threads = {t1, t2, t3}
  MIs = {m1, m2}
  NoThread = NoThread
  NoMI = NoMI
  SerialAdmin = TRUE
  Unloads = FALSE
  BrokerFreesMI = TRUE
  Failures = {"init", "import", "proxy"}
  MaxCount = 3
SPECIFICATION FairSpec
INVARIANTS
  TypeOK
  MIsSafe
  UseCount
PROPERTIES
  Implements
  CallsReturn
CHECK_DEADLOCK FALSE
