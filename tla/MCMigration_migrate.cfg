CONSTANTS
  Objects = {o1}
  Jobs = {j1, j2}
  Requests = {r1}
  Tick = tick
  NoJob = NoJob
  Free = Free
  Orphan = Orphan
  MaxFaults = 1
  MaxCrashes = 1
  MaxExpiries = 1
SPECIFICATION Spec
CONSTRAINT OneDisturbance
INVARIANTS TypeOK NoObjectLost ObjectsVisible
SYMMETRY Symmetry
