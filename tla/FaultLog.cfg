SPECIFICATION Spec
CONSTANTS
  MaxRecords = 3
  MaxSequence = 4
  MaxResets = 2
  Erased = Erased
  Torn = Torn
INVARIANTS
  TypeOK
  SurvivesReset
  SequencesInOrder
  ResetCountsInOrder
PROPERTIES
  ImplementsDurableLog
