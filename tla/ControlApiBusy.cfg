SPECIFICATION Spec
CONSTANTS
  Wrap = 5
  MaxWritten = 3
  MaxBurst = 1
INVARIANTS
  NotBusyMeansAnswered
