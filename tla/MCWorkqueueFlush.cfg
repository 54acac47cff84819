CONSTANTS
  t1 = t1
  t2 = t2
  w1 = w1
  Tasks = {t1, t2}
  Works = {w1}
  CPUs = {1, 2}
  Hotplug = Hotplug
  Null = Null
  Programs <- MCFlushPrograms
SPECIFICATION Spec
INVARIANT FlushWorkWaits
