CONSTANTS
  t1 = t1
  t2 = t2
  t3 = t3
  t4 = t4
  Tasks = {t1, t2, t3, t4}
  Null = Null
SPECIFICATION FairSpec
INVARIANTS ActivityIsExact FrontIsRight
PROPERTIES IsRWLock Served
