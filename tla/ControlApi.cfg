SPECIFICATION FairSpec
CONSTANTS
  Wrap = 5
  MaxWritten = 4
  MaxBurst = 1
INVARIANTS
  TypeOK
  OnceInOrder
  NewestKept
PROPERTIES
  AnswerIsOwn
  AnswerComes
