SPECIFICATION FairSpec
CONSTANTS
  UpSizes = {0, 1, 2, 3}
  DownSizes = {1, 2, 4}
  RecvLimit = 2
  SendLimit = 3
  Room <- TwoPieces
  MaxUp = 3
  MaxDown = 2
INVARIANT TypeOK
PROPERTIES ImplementsChannel FramesGoOn
CHECK_DEADLOCK FALSE
