SPECIFICATION Spec
CONSTANTS
  Scripts = {"a", "b"}
  Contents = {"old", "new", "silent", "broken"}
  Working = {"old", "new"}
  Silent = {"silent"}
  Absent = "absent"
  MaxChanges = 1
PROPERTY ReloadTakesEffect
CHECK_DEADLOCK FALSE
