CONSTANTS
  Threads = {t1, t2}
  MIs = {m1, m2}
  Unloads = TRUE
SPECIFICATION Spec
INVARIANT ServesAll
