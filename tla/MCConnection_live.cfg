SPECIFICATION FairSpec
CONSTANTS
  Peers = {p1}
  NoPeer = NoPeer
  MaxConns = 2
  MaxCmds = 1
  MaxThrows = 0
PROPERTIES DisableCompletes DepartedCleared WaitingAccepted
