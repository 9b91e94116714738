SPECIFICATION Spec
CONSTANTS
  Addresses = {a1, a2}
  None = None
  Sent <- MCSent
  MaxEnables = 2
  MaxQueue = 2
  MaxPresses = 1
SYMMETRY AddressSymmetry
INVARIANTS TypeOK LoopsLive MenuAgrees LabelsAgree ClientTold MenuFollowsClient
