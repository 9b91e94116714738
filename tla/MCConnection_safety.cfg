SPECIFICATION Spec
CONSTANTS
  Peers = {p1, p2}
  NoPeer = NoPeer
  MaxConns = 2
  MaxCmds = 2
  MaxThrows = 1
SYMMETRY PeerSymmetry
INVARIANTS TypeOK SessionIsolation OneSessionPerException StrayOnlyBeforeOpen ClientViewAgrees SteadyWhileConnected ShutdownMeetsItsClient DisabledIsClean
PROPERTIES ImplementsContract OpensInOrder
