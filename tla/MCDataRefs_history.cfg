SPECIFICATION Spec
CONSTANTS
  Users = {u1}
  SimTypes = {"int", "double", "floats"}
  Top = 1
  Epsilon = 0
  NaN = NaN
  MaxLen = 2
  NoValue = NoValue
INVARIANTS TypeOK CallbacksReachLiveObjects ForcedIsNoticed
PROPERTIES UndoRestoresSaved SetValTouchesOneItem
