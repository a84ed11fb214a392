CONSTANTS
  Threads = {t1, t2}
  MIs = {m1, m2}
  NoThread = NoThread
  NoMI = NoMI
  SerialAdmin = TRUE
  Unloads = TRUE
  BrokerFreesMI = TRUE
  Failures = {}
  MaxCount = 3
SPECIFICATION Spec
INVARIANT FreedOnce
