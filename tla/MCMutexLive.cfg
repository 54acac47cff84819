CONSTANTS
  t1 = t1
  t2 = t2
  Tasks = {t1, t2}
  Null = Null
  SpinOnOwner = TRUE
SPECIFICATION FairSpec
INVARIANT TypeOK
PROPERTY SomeoneGetsIt
