CONSTANTS
  Threads = {t1, t2}
  MIs = {m1, m2}
  Names = {n1}
  Brokers = {b1, b2}
  Proxies = {p1, p2}
  None = None
  SerialAdmin = TRUE
  MaxSent = 2
SPECIFICATION Spec
SYMMETRY Symmetry
INVARIANTS
  TypeOK
  OwnBroker
  OneProvider
  CompleteIffOK
