SPECIFICATION Spec
CONSTANTS
  Rails = {r48, r12}
  Motors = {A}
  Locks = {L1}
PROPERTIES
  ReenableNeedsCommand
