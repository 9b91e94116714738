SPECIFICATION Spec
CONSTANTS
  XP = XP
  Workers = {w1}
  Nobody = Nobody
  MaxMsgs = 3
INVARIANTS TrailingNewline
