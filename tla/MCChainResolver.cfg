\* No, one, two or three upstreams that may hang until their contexts end.
SPECIFICATION FairSpec
CONSTANTS
  Upstreams = {r1, r2, r3}
  Answers = {a1}
  PerTries = {TRUE, FALSE}
  None = None
INVARIANTS TypeOK NoAnswerMissed NoResultLost
PROPERTIES ImplementsResolver LosersStop
