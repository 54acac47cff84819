CONSTANTS
  r1 = r1
  r2 = r2
  u1 = u1
  u2 = u2
  Readers = {r1, r2}
  Updaters = {u1, u2}
  NCPU = 2
  IntRange = 6
  CntRange = 3
  Null = Null
  Sharings <- MCSharings
SPECIFICATION FairSpec
INVARIANTS GracePeriod OldRankOnlyDrains
PROPERTY GracePeriodEnds
