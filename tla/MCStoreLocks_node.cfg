SPECIFICATION Spec
CONSTANTS
  t1 = t1
  t2 = t2
  t3 = t3
  t4 = t4
  t5 = t5
  Threads = {t1, t2, t3, t4, t5}
  Job <- Node
  Drive = TRUE
PROPERTY Returns
CHECK_DEADLOCK FALSE
