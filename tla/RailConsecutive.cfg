SPECIFICATION Spec
CONSTANTS
  RetryPeriod = 1
  RestartWait = 2
  ObservePeriod = 4
  MaxBusErrors = 2
  Wrap = 5
PROPERTIES
  AbsentAfterConsecutiveErrors
