CONSTANTS
  Sessions = {s1, s2}
  Requests = {r1, r2}
  Sockets = {w1}
  Voices = {}
  Cleaner = cleaner
  None = None
  MaxAnswers = 0
  Buffer = 1
SPECIFICATION Spec
SYMMETRY Symmetry
INVARIANTS TypeOK SessionsHeld
