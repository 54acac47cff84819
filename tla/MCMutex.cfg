CONSTANTS
  t1 = t1
  t2 = t2
  t3 = t3
  Tasks = {t1, t2, t3}
  Null = Null
  SpinOnOwner = TRUE
SPECIFICATION Spec
SYMMETRY Symmetry
INVARIANTS MutualExclusion OwnerIsHolder NoLostWakeup ListIsWaiters
