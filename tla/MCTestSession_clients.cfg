CONSTANTS
  Sessions = {s1}
  Requests = {r1}
  Sockets = {w1}
  Voices = {v1, v2}
  Cleaner = cleaner
  None = None
  MaxAnswers = 3
  Buffer = 1
SPECIFICATION FairSpec
ACTION_CONSTRAINT CallsFirst
INVARIANTS AnswersThenStatus GoroutinesReleased
PROPERTIES GoroutinesEnd
