SPECIFICATION FairSpec
CONSTANTS
  RetryPeriod = 1
  RestartWait = 2
  ObservePeriod = 4
  MaxBusErrors = 2
  Wrap = 5
INVARIANTS
  TypeOK
  OffIsFinal
PROPERTIES
  CooldownRespected
  SettleRespected
  ImplementsContract
  RetriesForever
