SPECIFICATION HostSpec
CONSTANTS
  Rails = {0}
  Motors = {0, 1}
  Locks = {0, 1}
  Percents = {0, 1, 128}
INVARIANTS
  TypeOK
  ModeTracksEStop
  WinchStillInEStop
  AckedRailsStayOff
  ReportedIsDriven
  OnWasAsked
