SPECIFICATION Spec
CONSTANTS
  MaxRecords = 3
  MaxSequence = 4
  MaxResets = 2
  Erased = Erased
  Torn = Torn
PROPERTIES
  ReportsWhatHappened
