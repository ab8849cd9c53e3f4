SPECIFICATION LifeSpec
CONSTANTS
  Rails = {"r48", "r24", "r12"}
  MaxFaults = 2
  WatchdogTries = 2
  Considered = {"overcurrent", "overTemperature", "invalidCommand", "memory",
                "overTemperatureWarn", "otherCommunication"}
  MaxChanges = 3
INVARIANTS
  TypeOK
  OkMeansLongWatchdog
  WarningsMeanAmps
  RangeIsKnown
  StandingFaultsNamed
  NoFaultInvented
PROPERTIES
  OtherFieldsKept
