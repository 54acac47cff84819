CONSTANTS
  t1 = t1
  t2 = t2
  Tasks = {t1, t2}
  InitCount = 1
  MaxCount = 2
  MaxTimeout = 2
SPECIFICATION FairSpec
INVARIANTS TypeOK UnitsConserved NoOvertaking ListIsWaiters GrantedIsAwake
PROPERTIES DownReturns TimeoutReturns
