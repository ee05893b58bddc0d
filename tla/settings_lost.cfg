SPECIFICATION Spec
CONSTANTS
  Requests = {r1}
  Values = {v1}
  Unset = Unset
SYMMETRY Symmetry
PROPERTY SettingsStored
CHECK_DEADLOCK FALSE
