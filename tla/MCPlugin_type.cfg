SPECIFICATION Spec
CONSTANTS
  Addresses = {a1, a2}
  None = None
  Sent <- MCSent
  MaxEnables = 1
  MaxQueue = 2
  MaxPresses = 1
PROPERTIES TypeCommandCycles
