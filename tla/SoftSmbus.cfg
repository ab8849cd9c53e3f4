SPECIFICATION Spec
CONSTANTS
  Bits = 3
  Own <- MCOwn
  Addresses <- MCAddresses
  Settings <- MCSettings
  Values <- MCValues
  Answer <- MCAnswer
  MaxAnswer = 3
  Fetches = {1, 3}
  MaxLost = 3
  MaxOther = 1
INVARIANTS
  TypeOK
  DoneWasTaken
  DoneReadIsExact
  RecoversInTime
PROPERTIES
  NoStrayWrite
