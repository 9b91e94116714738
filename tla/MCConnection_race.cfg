SPECIFICATION Spec
CONSTANTS
  Peers = {p1}
  NoPeer = NoPeer
  MaxConns = 1
  MaxCmds = 0
  MaxThrows = 0
INVARIANTS SendsOnLiveSocket
