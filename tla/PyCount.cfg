CONSTANTS
  Threads = {t1, t2}
  MIs = {m1, m2}
  NoThread = NoThread
  NoMI = NoMI
  SerialAdmin = FALSE
  Unloads = FALSE
  BrokerFreesMI = FALSE
  Failures = {}
  MaxCount = 3
SPECIFICATION Spec
INVARIANT UseCount
