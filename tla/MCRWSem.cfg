CONSTANTS
  t1 = t1
  t2 = t2
  t3 = t3
  t4 = t4
  Tasks = {t1, t2, t3, t4}
  Null = Null
  ACTIVE_MASK = 7
SPECIFICATION FairSpec
INVARIANTS TypeOK CountIsAccurate NobodyForgotten GrantedIsWoken
PROPERTIES IsRWLock FirstServed
