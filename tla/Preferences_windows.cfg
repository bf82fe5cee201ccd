CONSTANTS
  MainWindows = {m1, m2}
  SmallWindows = {}
  Settings = {p1, p2}
  MaxChanges = 3
  NoSave = NoSave
  Coincidences = {"windows"}
SPECIFICATION PreferencesSpec
INVARIANT SettingsStand
CHECK_DEADLOCK FALSE
