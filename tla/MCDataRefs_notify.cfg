SPECIFICATION Spec
CONSTANTS
  Users = {u1, u2}
  SimTypes = {"int"}
  Top = 1
  Epsilon = 0
  NaN = NaN
  MaxLen = 1
  NoValue = NoValue
PROPERTY SharersAreNotified
