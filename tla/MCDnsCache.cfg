\* Safety: three calls on two keys, a table that holds one entry.
SPECIFICATION Spec
CONSTANTS
  Calls = {c1, c2, c3}
  Keys = {k1, k2}
  Answers = {a1}
  posTTL = 2
  negTTL = 1
  maxSize = 1
  MaxTime = 3
  None = None
SYMMETRY Symmetry
INVARIANTS TypeOK SingleFlight AnswerFresh CancelIsolation CacheBounded
