CONSTANTS
  Threads = {t1, t2, t3}
  MIs = {m1, m2, m3}
  NoThread = NoThread
  NoMI = NoMI
  SerialAdmin = FALSE
  Unloads = FALSE
  BrokerFreesMI = TRUE
  Failures = {"init", "import", "proxy"}
  MaxCount = 3
SPECIFICATION Spec
SYMMETRY Symmetry
INVARIANT LockDiscipline
CHECK_DEADLOCK FALSE
