CONSTANTS
  Sessions = {s1, s2}
  Answers <- MCAnswers
  V4 = {1, 3}
  Ttl = 2
  Timeout = 2
  MaxTime = 6
SPECIFICATION FairSpec
INVARIANTS TypeOK BoundedDelay InTurn
PROPERTY AttemptEnds
CHECK_DEADLOCK FALSE
