CONSTANTS
  c1 = c1
  c2 = c2
  a = a
  b = b
  u1 = u1
  u2 = u2
  CPUs = {c1}
  Tasklets = {a, b}
  Tasks = {u1, u2}
  Hotplug = Hotplug
  Null = Null
  Programs <- MCFirstPrograms
SPECIFICATION FirstFairSpec
PROPERTY ScheduledRuns
